---- MODULE Spec2Model ----
(***************************************************************************)
(* Model of tweetnlp/text_classification/model.py:                         *)
(*   - Classifier.predict  (batch dispatcher + output formatter),          *)
(*   - preprocess          (text normalizer),                              *)
(*   - download_id2label   (label store with its file cache).              *)
(*                                                                         *)
(* Python values are modelled as follows.  A str is a sequence of one-     *)
(* character strings, a list is a sequence (Python index i is TLA+ index   *)
(* i+1), a dict is a function on its keys.  A value whose Python type is   *)
(* decided at run time carries that type in a field "type".                *)
(***************************************************************************)
EXTENDS Integers, Sequences, FiniteSets, TLC

VARIABLES
    \* ---- Classifier.predict ----
    pc,                 \* position inside predict
    text_arg,           \* argument `text`: a str or a list of str
    batch_size_arg,     \* argument `batch_size`: None or an int
    return_probability, \* argument `return_probability`
    multi_label,        \* self.multi_label
    modelProbs,         \* the model capability: encoded text -> probability row
    single_input_flag,  \* local of predict
    text,               \* local `text` after line 106
    batch_size,         \* local `batch_size` after line 107
    index,              \* local `_index`
    probs,              \* local `probs`
    chunks,             \* history: the slices handed to the tokenizer, in order
    out,                \* local `out`
    result,             \* what predict returns or raises
    \* ---- preprocess ----
    npc,                \* position of the normalizer run
    raw,                \* the text given to the first preprocess call
    mentioned,          \* first call: `text` after line 71
    once,               \* preprocess(raw)
    twice,              \* preprocess(preprocess(raw))
    \* ---- download_id2label ----
    files,              \* the cache directory: task -> file content or absent
    remote,             \* what the mapping link currently serves, per task
    netUp,              \* whether urlopen currently succeeds
    firstOk,            \* history: per task, the first mapping a lookup returned
    last,               \* history: the last lookup (task, file seen, fetch, outcome)
    prevRaised,         \* history: per task, whether its previous lookup raised
    lookups             \* history: number of lookups made

predictVars == <<pc, text_arg, batch_size_arg, return_probability, multi_label,
                 modelProbs, single_input_flag, text, batch_size, index,
                 probs, chunks, out, result>>
normVars == <<npc, raw, mentioned, once, twice>>
cacheVars == <<files, remote, netUp, firstOk, last, prevRaised, lookups>>
vars == <<predictVars, normVars, cacheVars>>

----------------------------------------------------------------------------
(* Bounds of the model *)

MaxTexts == 3       \* longest input list given to predict
MaxBatch == 4       \* largest explicit batch_size
NumLabels == 3      \* width of the classification head
MaxLen == 4         \* longest free-form text given to preprocess
MaxWordLen == 5     \* longest word of a URL-shaped text
MaxWords == 2       \* most words in a URL-shaped text
MaxLookups == 4     \* lookups made on the label store

----------------------------------------------------------------------------
(* Python helpers *)

Min(a, b) == IF a < b THEN a ELSE b

\* a variant that leaves out the start of a final partial chunk
PyRangeFloor(n, step) ==
    IF step > 0 /\ n >= step
    THEN [j \in 1..(n \div step) |-> (j - 1) * step]
    ELSE IF step > 0 /\ n > 0 THEN <<0>> ELSE << >>

\* list(range(0, n, step)) for step # 0 (step = 0 raises ValueError)
PyRange(n, step) ==
    IF step > 0
    THEN [j \in 1..((n + step - 1) \div step) |-> (j - 1) * step]
    ELSE << >>

\* l[a:b] for 0 <= a, 0 <= b: both ends are clamped to len(l)
PySlice(l, a, b) == SubSeq(l, Min(a, Len(l)) + 1, Min(b, Len(l)))

\* max(p) of a non-empty list
PyMax(p) == CHOOSE v \in {p[n] : n \in 1..Len(p)} :
                \A n \in 1..Len(p) : p[n] <= v

\* a variant that finds the last position holding v
PyIndexLast(p, v) == (CHOOSE n \in 1..Len(p) :
                         /\ p[n] = v
                         /\ \A m \in (n + 1)..Len(p) : p[m] # v) - 1

\* p.index(v): the first position holding v (0-based)
PyIndex(p, v) == (CHOOSE n \in 1..Len(p) :
                     /\ p[n] = v
                     /\ \A m \in 1..(n - 1) : p[m] # v) - 1

----------------------------------------------------------------------------
(* preprocess (text normalizer), model.py lines 70-78 *)

\* Characters are represented by classes; one or a few members stand for each.
UpperChars == {"A"}
LowerChars == {"a", "u", "s", "e", "r", "h", "t", "p"}
DigitChars == {"1"}
SpaceChars == {" "}

\* the character class of the pattern r"@[A-Z,0-9]+" (line 71)
MentionClass == UpperChars \cup {","} \cup DigitChars

AtUser == <<"@", "u", "s", "e", "r">>
Http == <<"h", "t", "t", "p">>

\* the last position of the maximal run of cls characters that starts at k
RECURSIVE RunEnd(_, _, _)
RunEnd(cls, t, k) ==
    IF k < Len(t) /\ t[k + 1] \in cls THEN RunEnd(cls, t, k + 1) ELSE k

\* re.sub("@[cls]+", "@user", t) from position k on: leftmost, greedy,
\* non-overlapping matches, everything else copied
RECURSIVE SubFrom(_, _, _)
SubFrom(cls, t, k) ==
    IF k > Len(t) THEN << >>
    ELSE IF t[k] = "@" /\ k < Len(t) /\ t[k + 1] \in cls
         THEN AtUser \o SubFrom(cls, t, RunEnd(cls, t, k + 1) + 1)
         ELSE <<t[k]>> \o SubFrom(cls, t, k + 1)

\* line 71: text = re.sub(r"@[A-Z,0-9]+", "@user", text)
ReSubMentions(t) == SubFrom(MentionClass, t, 1)

\* the whitespace-delimited tokens of t from position k on, in order
RECURSIVE TokensFrom(_, _, _)
TokensFrom(t, k, cur) ==
    IF k > Len(t) THEN (IF cur = << >> THEN << >> ELSE <<cur>>)
    ELSE IF t[k] \in SpaceChars
         THEN (IF cur = << >> THEN << >> ELSE <<cur>>) \o TokensFrom(t, k + 1, << >>)
         ELSE TokensFrom(t, k + 1, Append(cur, t[k]))

\* URL detection of the urlextract library, which the repository calls and
\* does not contain.  It is TLD driven: a whitespace-delimited token is a URL
\* when it is a dotted host name whose last label is a top-level domain; no
\* scheme is needed.  Here the one-letter label "a" stands for a top-level
\* domain ("co", "uk", "com"), host labels are non-empty runs of letters and
\* digits, and a token holding any other character is no URL.
HostChars == UpperChars \cup LowerChars \cup DigitChars
IsUrl(tok) ==
    /\ Len(tok) >= 3
    /\ \A k \in 1..Len(tok) : tok[k] \in HostChars \cup {"."}
    /\ tok[1] # "."
    /\ \A k \in 1..(Len(tok) - 1) : ~(tok[k] = "." /\ tok[k + 1] = ".")
    /\ tok[Len(tok) - 1] = "."
    /\ tok[Len(tok)] = "a"

\* line 72: URLEx.find_urls(text): the URLs in order of occurrence
FindUrls(t) == SelectSeq(TokensFrom(t, 1, << >>), IsUrl)

\* whether old occurs in t at position k
OccursAt(t, old, k) ==
    /\ k + Len(old) - 1 <= Len(t)
    /\ \A j \in 1..Len(old) : t[k + j - 1] = old[j]

\* str.replace(old, new) from position k on: every non-overlapping occurrence,
\* left to right, wherever it is in the text
RECURSIVE ReplaceFrom(_, _, _, _)
ReplaceFrom(t, old, new, k) ==
    IF k > Len(t) THEN << >>
    ELSE IF OccursAt(t, old, k)
         THEN new \o ReplaceFrom(t, old, new, k + Len(old))
         ELSE <<t[k]>> \o ReplaceFrom(t, old, new, k + 1)

\* lines 73-77: for _url in urls: text = text.replace(_url, "http")
\* (str.replace raises no re.error, so the except branch is never taken)
RECURSIVE ReplaceUrls(_, _)
ReplaceUrls(t, urls) ==
    IF urls = << >> THEN t
    ELSE ReplaceUrls(ReplaceFrom(t, Head(urls), Http, 1), Tail(urls))

\* preprocess(text)
Preprocess(t) == ReplaceUrls(ReSubMentions(t), FindUrls(ReSubMentions(t)))

\* Inputs of the normalizer: every text of up to MaxLen characters, and the
\* URL-shaped texts of up to MaxWords words separated by one space.
InputChars == {"@", "A", "a", ",", "1", " ", "."}
FreeTexts == UNION {[1..n -> InputChars] : n \in 0..MaxLen}
Words == UNION {[1..n -> {"a", "."}] : n \in 1..MaxWordLen}
RECURSIVE JoinWords(_)
JoinWords(ws) ==
    IF Len(ws) = 1 THEN ws[1] ELSE ws[1] \o <<" ">> \o JoinWords(Tail(ws))
UrlTexts == {JoinWords(ws) : ws \in UNION {[1..n -> Words] : n \in 1..MaxWords}}
NormInputs == FreeTexts \cup UrlTexts

NormIdle ==
    /\ npc = "idle" /\ raw = << >> /\ mentioned = << >>
    /\ once = << >> /\ twice = << >>

\* first call: once = preprocess(raw); `mentioned` keeps the local after line 71
Normalize ==
    /\ npc = "start"
    /\ mentioned' = ReSubMentions(raw)
    /\ once' = Preprocess(raw)
    /\ npc' = "once"
    /\ UNCHANGED <<raw, twice>>
    /\ UNCHANGED <<predictVars, cacheVars>>

\* second call, on the result of the first
NormalizeAgain ==
    /\ npc = "once"
    /\ twice' = Preprocess(once)
    /\ npc' = "twice"
    /\ UNCHANGED <<raw, mentioned, once>>
    /\ UNCHANGED <<predictVars, cacheVars>>


----------------------------------------------------------------------------
(* Classifier.predict, model.py lines 102-142 *)

\* The texts predict is called with, and what the tokenizer is given for them.
TextPool == {<<"@", "A">>, <<"a", ".", "a">>}
\* preprocess on the texts of the pool, tabulated
Normalized == [t \in TextPool |-> Preprocess(t)]
Encoded == {Normalized[t] : t \in TextPool}

\* Probabilities are counted in halves: 0 is 0.0, 1 is 0.5, 2 is 1.0.
ProbValues == {0, 1, 2}
ProbRows == [1..NumLabels -> ProbValues]

\* The model capabilities considered: every row is produced for every text,
\* and the two texts of the pool get rows that differ unless all classes tie.
Rotate(r) == [n \in 1..Len(r) |-> r[(n % Len(r)) + 1]]
ModelTables ==
    {[t \in Encoded |-> IF t = Normalized[<<"@", "A">>] THEN r ELSE Rotate(r)] :
        r \in ProbRows}

\* the threshold 0.5 of lines 127 and 137, in halves
Half == 1

\* a variant that keeps a probability of exactly 0.5
OverHalfInclusive(p) == p >= Half

\* line 127, 137: p > 0.5
OverHalf(p) == p > Half

\* self.id_to_label (line 91): the inverse of config.label2id, keyed by str(id)
id_to_label == [k \in {ToString(n) : n \in 0..(NumLabels - 1)} |-> "label_" \o k]

\* run-time typed Python values; a raised exception is tagged "raise"
PyStr(s) == [type |-> "str", str |-> s]
PyList(l) == [type |-> "list", list |-> l]
PyDict(d) == [type |-> "dict", dict |-> d]
PyRaise(e) == [type |-> "raise", raise |-> e]
PyNone == [type |-> "None"]
PyInt(k) == [type |-> "int", int |-> k]

\* a variant whose default is never 0
DefaultBatchAtLeastOne(arg, n) ==
    IF arg.type = "None" THEN (IF n = 0 THEN 1 ELSE n) ELSE arg.int

\* line 107: batch_size = len(text) if batch_size is None else batch_size
DefaultBatch(arg, n) == IF arg.type = "None" THEN n ELSE arg.int

\* a variant whose closing bound falls one short
PredictIndexShort(n, bs) == PyRange(n, bs) \o <<n - 1>>

\* line 108: _index = list(range(0, len(text), batch_size)) + [len(text) + 1]
PredictIndex(n, bs) == PyRange(n, bs) \o <<n + 1>>

\* lines 112-122 for one chunk: encode the chunk, run the model, and turn the
\* logits into one probability row per example (sigmoid or softmax); the model
\* capability is a function of the example alone
Forward(m, chunk) == [j \in 1..Len(chunk) |-> m[chunk[j]]]

\* lines 111-122: for i in range(len(_index) - 1), from iteration k on
\* (k is i + 1); acc is the pair <<probs, chunks>>
RECURSIVE ForwardFrom(_, _, _, _, _)
ForwardFrom(m, txt, idx, k, acc) ==
    IF k > Len(idx) - 1 THEN acc
    ELSE LET chunk == PySlice(txt, idx[k], idx[k + 1])
         IN  ForwardFrom(m, txt, idx, k + 1,
                         <<acc[1] \o Forward(m, chunk), Append(acc[2], chunk)>>)

\* [self.id_to_label[str(n)] for n, p in enumerate(_pr) if p > 0.5], from n on
RECURSIVE LabelsOver(_, _)
LabelsOver(pr, n) ==
    IF n > Len(pr) - 1 THEN << >>
    ELSE (IF OverHalf(pr[n + 1]) THEN <<id_to_label[ToString(n)]>> ELSE << >>)
         \o LabelsOver(pr, n + 1)

\* self.id_to_label[str(p.index(max(p)))]
ArgMaxLabel(p) == id_to_label[ToString(PyIndex(p, PyMax(p)))]

\* {self.id_to_label[str(n)]: p for n, p in enumerate(_pr)}: a later n
\* overwrites an earlier one with the same label
ProbabilityDict(pr) ==
    [l \in {id_to_label[ToString(n)] : n \in 0..(Len(pr) - 1)} |->
        LET hits == {n \in 0..(Len(pr) - 1) : id_to_label[ToString(n)] = l}
            n == CHOOSE x \in hits : \A y \in hits : y <= x
        IN  pr[n + 1]]

\* a variant that attaches the probabilities in multi-label mode only
FormatRecordNoProb(pr, ml, rp) ==
    IF rp /\ ml
    THEN [label |-> PyList(LabelsOver(pr, 0)), probability |-> ProbabilityDict(pr)]
    ELSE IF ml
         THEN [label |-> PyList(LabelsOver(pr, 0))]
         ELSE [label |-> PyStr(ArgMaxLabel(pr))]

\* lines 124-139, the record built for one probability row
FormatRecord(pr, ml, rp) ==
    IF rp
    THEN IF ml
         THEN [label |-> PyList(LabelsOver(pr, 0)), probability |-> ProbabilityDict(pr)]
         ELSE [label |-> PyStr(ArgMaxLabel(pr)), probability |-> ProbabilityDict(pr)]
    ELSE IF ml
         THEN [label |-> PyList(LabelsOver(pr, 0))]
         ELSE [label |-> PyStr(ArgMaxLabel(pr))]

\* lines 124-139: out = [... for _pr in probs]
FormatOut(ps, ml, rp) == [j \in 1..Len(ps) |-> FormatRecord(ps[j], ml, rp)]

\* a variant that never unwraps
PredictReturnList(flag, o) == PyList(o)

\* lines 140-142
PredictReturn(flag, o) ==
    IF flag
    THEN (IF Len(o) > 0 THEN PyDict(o[1]) ELSE PyRaise("IndexError"))
    ELSE PyList(o)

TextArgs ==
    {PyStr(t) : t \in TextPool}
    \cup {PyList(l) : l \in UNION {[1..n -> TextPool] : n \in 0..MaxTexts}}
BatchArgs == {PyNone} \cup {PyInt(k) : k \in 0..MaxBatch}

PredictIdle ==
    /\ pc = "idle" /\ text_arg = PyNone /\ batch_size_arg = PyNone
    /\ return_probability = FALSE /\ multi_label = FALSE
    /\ modelProbs = << >> /\ single_input_flag = FALSE /\ text = << >>
    /\ batch_size = 0 /\ index = << >> /\ probs = << >> /\ chunks = << >>
    /\ out = << >> /\ result = PyNone

\* a Classifier and the arguments of one predict call
PredictInit ==
    /\ pc = "call"
    /\ text_arg \in TextArgs
    /\ batch_size_arg \in BatchArgs
    /\ return_probability \in BOOLEAN
    /\ multi_label \in BOOLEAN
    /\ modelProbs \in ModelTables
    /\ single_input_flag = FALSE /\ text = << >> /\ batch_size = 0
    /\ index = << >> /\ probs = << >> /\ chunks = << >> /\ out = << >>
    /\ result = PyNone

\* lines 104-106: the list predict works on, each text normalized
EnterText(arg) ==
    LET given == IF arg.type = "str" THEN <<arg.str>> ELSE arg.list
    IN  [j \in 1..Len(given) |-> Normalized[given[j]]]

\* predict, when range() at line 108 raises: batch_size is 0
PredictRaises ==
    /\ pc = "call"
    /\ LET txt == EnterText(text_arg)
           bs == DefaultBatch(batch_size_arg, Len(txt))
       IN  /\ bs = 0
           /\ text' = txt
           /\ batch_size' = bs
    /\ single_input_flag' = (text_arg.type = "str")
    /\ result' = PyRaise("ValueError")
    /\ pc' = "raised"
    /\ UNCHANGED <<text_arg, batch_size_arg, return_probability, multi_label,
                   modelProbs, index, probs, chunks, out>>
    /\ UNCHANGED <<normVars, cacheVars>>

\* predict, lines 103-142, when it runs to its return statement
PredictReturns ==
    /\ pc = "call"
    /\ LET txt == EnterText(text_arg)
           bs == DefaultBatch(batch_size_arg, Len(txt))
           idx == PredictIndex(Len(txt), bs)
           run == ForwardFrom(modelProbs, txt, idx, 1, << << >>, << >> >>)
           o == FormatOut(run[1], multi_label, return_probability)
       IN  /\ bs # 0
           /\ text' = txt
           /\ batch_size' = bs
           /\ index' = idx
           /\ probs' = run[1]
           /\ chunks' = run[2]
           /\ out' = o
           /\ result' = PredictReturn(text_arg.type = "str", o)
    /\ single_input_flag' = (text_arg.type = "str")
    /\ pc' = "returned"
    /\ UNCHANGED <<text_arg, batch_size_arg, return_probability, multi_label,
                   modelProbs>>
    /\ UNCHANGED <<normVars, cacheVars>>

----------------------------------------------------------------------------
(* download_id2label (label store), model.py lines 51-67 *)

Tasks == {"sentiment", "emoji"}

\* What the mapping link can serve: the rows of mapping.txt after
\* split("\n") and csv.reader(delimiter='\t'); a row is its list of columns.
RemoteVersions ==
    { << <<"0", "negative">>, <<"1", "positive">>, << >> >>,
      << <<"0", "neutral">>, <<"stray">>, <<"1", "positive">> >> }

Absent == [exists |-> FALSE, content |-> << >>]
Present(c) == [exists |-> TRUE, content |-> c]

\* line 60: labels = [row[1] for row in csvreader if len(row) > 1]
RECURSIVE ParseLabels(_)
ParseLabels(rows) ==
    IF rows = << >> THEN << >>
    ELSE (IF Len(Head(rows)) > 1 THEN <<Head(rows)[2]>> ELSE << >>)
         \o ParseLabels(Tail(rows))

\* line 61: id2label = {str(n): _l for n, _l in enumerate(labels)}
EnumerateLabels(labels) ==
    [k \in {ToString(n) : n \in 0..(Len(labels) - 1)} |->
        labels[(CHOOSE n \in 0..(Len(labels) - 1) : ToString(n) = k) + 1]]

\* line 63: json.dump(id2label, f): the members in insertion order
JsonDump(d) ==
    [j \in 1..Cardinality(DOMAIN d) |-> <<ToString(j - 1), d[ToString(j - 1)]>>]

\* line 66: json.load(f): the last member with a name gives its value
JsonLoad(c) ==
    [k \in {c[j][1] : j \in 1..Len(c)} |->
        LET hits == {j \in 1..Len(c) : c[j][1] = k}
        IN  c[CHOOSE x \in hits : \A y \in hits : y <= x][2]]

\* a variant that ignores the cache file
TakesFetchAlways(file) == TRUE

\* line 53: whether the lookup takes the download branch
TakesFetch(file) == ~file.exists

\* one call of download_id2label(task) given the cache file, the network and
\* the served rows: the file it leaves and what it returns or raises
LookupOutcome(file, up, rows) ==
    IF TakesFetch(file)
    THEN IF up
         THEN LET id2label == EnumerateLabels(ParseLabels(rows))
              IN  [file |-> Present(JsonDump(id2label)), fetched |-> TRUE,
                   raised |-> FALSE, mapping |-> id2label]
         ELSE [file |-> file, fetched |-> TRUE,
               raised |-> TRUE, mapping |-> << >>]
    ELSE [file |-> file, fetched |-> FALSE,
          raised |-> FALSE, mapping |-> JsonLoad(file.content)]

NoLookup == [task |-> "", hadFile |-> FALSE, hadOk |-> FALSE, afterRaise |-> FALSE,
             up |-> FALSE, fetched |-> FALSE, raised |-> FALSE, mapping |-> << >>]
NotYet == [set |-> FALSE, mapping |-> << >>]

CacheIdle ==
    /\ files = [t \in Tasks |-> Absent]
    /\ remote = [t \in Tasks |-> << >>]
    /\ netUp = FALSE
    /\ firstOk = [t \in Tasks |-> NotYet]
    /\ last = NoLookup
    /\ prevRaised = [t \in Tasks |-> FALSE]
    /\ lookups = 0

\* an empty cache directory
CacheInit ==
    /\ files = [t \in Tasks |-> Absent]
    /\ remote \in [Tasks -> RemoteVersions]
    /\ netUp \in BOOLEAN
    /\ firstOk = [t \in Tasks |-> NotYet]
    /\ last = NoLookup
    /\ prevRaised = [t \in Tasks |-> FALSE]
    /\ lookups = 0

\* download_id2label(task)
Lookup(task) ==
    /\ lookups < MaxLookups
    /\ LET r == LookupOutcome(files[task], netUp, remote[task])
       IN  /\ files' = [files EXCEPT ![task] = r.file]
           /\ last' = [task |-> task, hadFile |-> files[task].exists,
                       hadOk |-> firstOk[task].set,
                       afterRaise |-> prevRaised[task], up |-> netUp,
                       fetched |-> r.fetched, raised |-> r.raised,
                       mapping |-> r.mapping]
           /\ firstOk' = IF ~r.raised /\ ~firstOk[task].set
                         THEN [firstOk EXCEPT ![task] =
                                  [set |-> TRUE, mapping |-> r.mapping]]
                         ELSE firstOk
           /\ prevRaised' = [prevRaised EXCEPT ![task] = r.raised]
    /\ lookups' = lookups + 1
    /\ UNCHANGED <<remote, netUp>>
    /\ UNCHANGED <<predictVars, normVars>>

\* the network comes up or goes down between lookups
NetworkChange ==
    /\ netUp' = ~netUp
    /\ UNCHANGED <<files, remote, firstOk, last, prevRaised, lookups>>
    /\ UNCHANGED <<predictVars, normVars>>

\* the served mapping of a task changes between lookups
RemoteChange(task) ==
    /\ \E rows \in RemoteVersions \ {remote[task]} :
          remote' = [remote EXCEPT ![task] = rows]
    /\ UNCHANGED <<files, netUp, firstOk, last, prevRaised, lookups>>
    /\ UNCHANGED <<predictVars, normVars>>

----------------------------------------------------------------------------
(* Specifications *)

\* one predict call on a Classifier
Init == PredictInit /\ NormIdle /\ CacheIdle
Next == PredictRaises \/ PredictReturns
Spec == Init /\ [][Next]_vars

\* the normalizer applied once and then again to its own result
NormInit ==
    /\ npc = "start" /\ raw \in NormInputs /\ mentioned = << >>
    /\ once = << >> /\ twice = << >>
InitNorm == PredictIdle /\ NormInit /\ CacheIdle
NextNorm == Normalize \/ NormalizeAgain
SpecNorm == InitNorm /\ [][NextNorm]_vars

\* a sequence of label-map lookups with a changing network and server
InitCache == PredictIdle /\ NormIdle /\ CacheInit
NextCache ==
    \/ \E t \in Tasks : Lookup(t)
    \/ NetworkChange
    \/ \E t \in Tasks : RemoteChange(t)
SpecCache == InitCache /\ [][NextCache]_vars


----------------------------------------------------------------------------
(* Properties of Classifier.predict, checked under Spec *)

Finished == pc \in {"returned", "raised"}
SequenceGiven == text_arg.type = "list"
ValidBatch == batch_size_arg.type = "None"
              \/ (batch_size_arg.type = "int" /\ batch_size_arg.int >= 1)
ExplicitBatch == batch_size_arg.type = "int" /\ batch_size_arg.int >= 1

\* the row the model gives the j-th input string
RowOfInput(j) == modelProbs[Normalized[text_arg.list[j]]]

\* the concatenation of a list of lists
RECURSIVE Flatten(_)
Flatten(ls) == IF ls = << >> THEN << >> ELSE Head(ls) \o Flatten(Tail(ls))

\* C1: for a non-empty input sequence and a batch_size that is unspecified or
\* at least 1, predict returns a sequence with one record per input string,
\* record j computed from input string j; the chunks forwarded, taken in
\* order, are the normalized inputs in order.
C1_OneRecordPerInputInOrder ==
    (Finished /\ SequenceGiven /\ Len(text_arg.list) > 0 /\ ValidBatch) =>
        /\ pc = "returned"
        /\ result.type = "list"
        /\ Len(result.list) = Len(text_arg.list)
        /\ \A j \in 1..Len(text_arg.list) :
              result.list[j] = FormatRecord(RowOfInput(j), multi_label, return_probability)
        /\ Flatten(chunks) = [j \in 1..Len(text_arg.list) |-> Normalized[text_arg.list[j]]]

C1_Witness ==
    /\ pc = "returned" /\ SequenceGiven /\ Len(text_arg.list) = 3
    /\ batch_size_arg = PyInt(2)
    /\ text_arg.list[1] # text_arg.list[2]
    /\ result.type = "list" /\ Len(result.list) = 3
    /\ result.list[1] # result.list[2]
    /\ Len(chunks) = 2

\* C2: called with a single string and a batch_size that is unspecified or at
\* least 1, predict returns one record (a dict), whatever the two flags are;
\* called with a sequence it returns a sequence whenever it returns.
C2_ScalarForStringListForSequence ==
    /\ (Finished /\ ~SequenceGiven /\ ValidBatch) =>
          (pc = "returned" /\ result.type = "dict")
    /\ (pc = "returned" /\ SequenceGiven) =>
          (result.type = "list" /\ Len(result.list) = Len(text_arg.list))

C2_Witness ==
    /\ pc = "returned" /\ ~SequenceGiven
    /\ return_probability /\ multi_label
    /\ result.type = "dict"
    /\ DOMAIN result.dict = {"label", "probability"}

\* the records predict returned
ReturnedRecords ==
    IF result.type = "dict" THEN {result.dict}
    ELSE IF result.type = "list" THEN {result.list[j] : j \in 1..Len(result.list)}
    ELSE {}
LabelStrings == {id_to_label[k] : k \in DOMAIN id_to_label}

\* C3: every returned record has the shape the two flags fix: its keys are
\* 'label' alone without return_probability and 'label' and 'probability'
\* with it; 'label' is one label string in single-label mode and a list of
\* label strings in multi-label mode.
C3_RecordShape ==
    pc = "returned" =>
        \A r \in ReturnedRecords :
            /\ DOMAIN r = (IF return_probability THEN {"label", "probability"}
                           ELSE {"label"})
            /\ r.label.type = (IF multi_label THEN "list" ELSE "str")
            /\ multi_label =>
                  \A n \in 1..Len(r.label.list) : r.label.list[n] \in LabelStrings
            /\ ~multi_label => r.label.str \in LabelStrings
            /\ return_probability => DOMAIN r.probability = LabelStrings

C3_Witness ==
    /\ pc = "returned" /\ SequenceGiven /\ Len(text_arg.list) = 3
    /\ batch_size_arg = PyInt(2)
    /\ return_probability /\ ~multi_label
    /\ \A j \in 1..3 : DOMAIN result.list[j] = {"label", "probability"}

\* what predict returns for the same call with batch_size = len(texts)
WholeBatchResult ==
    LET txt == EnterText(text_arg)
        idx == PredictIndex(Len(txt), Len(txt))
        run == ForwardFrom(modelProbs, txt, idx, 1, << << >>, << >> >>)
    IN  PredictReturn(text_arg.type = "str",
                      FormatOut(run[1], multi_label, return_probability))

\* C4: for a non-empty input sequence and an integer batch_size k >= 1,
\* predict returns what it returns with batch_size = len(texts), and the
\* chunks it forwards are the slices [0,k), [k,2k), ... of the input, the
\* last one holding the remainder.
C4_BatchingInvariance ==
    (Finished /\ SequenceGiven /\ Len(text_arg.list) > 0 /\ ExplicitBatch) =>
        LET k == batch_size_arg.int
            n == Len(text_arg.list)
        IN  /\ pc = "returned"
            /\ result = WholeBatchResult
            /\ Len(chunks) = (n + k - 1) \div k
            /\ \A c \in 1..Len(chunks) :
                  chunks[c] = [j \in 1..(Min(c * k, n) - (c - 1) * k) |->
                                  Normalized[text_arg.list[(c - 1) * k + j]]]

C4_Witness ==
    /\ pc = "returned" /\ SequenceGiven /\ Len(text_arg.list) = 3
    /\ batch_size_arg = PyInt(2)
    /\ Len(chunks) = 2 /\ Len(chunks[1]) = 2 /\ Len(chunks[2]) = 1
    /\ result = WholeBatchResult

\* the record returned for the j-th probability row
RecordOfRow(j) == IF result.type = "dict" THEN result.dict ELSE result.list[j]

\* C5: in multi-label mode, with or without return_probability, the label
\* list of a record holds the label of class n exactly when the probability
\* of class n is above 0.5, and holds it once.
C5_MultiLabelThreshold ==
    (pc = "returned" /\ multi_label) =>
        \A j \in 1..Len(probs) :
            LET got == RecordOfRow(j).label.list
            IN  /\ \A n \in 0..(NumLabels - 1) :
                      (\E x \in 1..Len(got) : got[x] = id_to_label[ToString(n)])
                          <=> probs[j][n + 1] > Half
                /\ Len(got) = Cardinality({n \in 1..NumLabels : probs[j][n] > Half})

C5_Witness ==
    /\ pc = "returned" /\ multi_label /\ SequenceGiven
    /\ Len(result.list) = 2
    /\ probs[1][1] = Half /\ probs[1][2] > Half /\ probs[1][3] < Half
    /\ result.list[1].label.list = <<id_to_label["1"]>>
    /\ Len(result.list[2].label.list) = 1

\* C6: in single-label mode the label of a record is the label-map entry of
\* the lowest index whose probability is maximal, with or without
\* return_probability.
C6_ArgMaxLowestIndex ==
    (pc = "returned" /\ ~multi_label) =>
        \A j \in 1..Len(probs) :
            \E n \in 0..(NumLabels - 1) :
                /\ RecordOfRow(j).label.str = id_to_label[ToString(n)]
                /\ \A m \in 0..(NumLabels - 1) : probs[j][m + 1] <= probs[j][n + 1]
                /\ \A m \in 0..(n - 1) : probs[j][m + 1] < probs[j][n + 1]

C6_Witness ==
    /\ pc = "returned" /\ ~multi_label /\ SequenceGiven
    /\ Len(result.list) > 0
    /\ probs[1][1] < probs[1][2] /\ probs[1][2] = probs[1][3]
    /\ result.list[1].label.str = id_to_label["1"]

\* C10: with an empty input sequence, predict with batch_size unspecified
\* raises at the chunk-boundary computation (the default batch size is 0)
\* having forwarded no chunk, and predict with an explicit batch_size >= 1
\* forwards no chunk and returns an empty sequence.
C10_EmptyInput ==
    (Finished /\ SequenceGiven /\ Len(text_arg.list) = 0) =>
        /\ batch_size_arg.type = "None" =>
              /\ pc = "raised" /\ result.type = "raise"
              /\ batch_size = 0 /\ chunks = << >> /\ probs = << >>
        /\ ExplicitBatch =>
              /\ pc = "returned" /\ result.type = "list"
              /\ Len(result.list) = 0 /\ chunks = << >>

C10_Witness ==
    /\ pc = "raised" /\ SequenceGiven /\ Len(text_arg.list) = 0
    /\ batch_size_arg.type = "None"
    /\ result = PyRaise("ValueError")


----------------------------------------------------------------------------
(* Properties of preprocess, checked under SpecNorm *)

\* the substitution the specification describes: "@" followed by one or more
\* letters of either case or digits becomes "@user", nothing else changes
SpecifiedMentions(t) == SubFrom(UpperChars \cup LowerChars \cup DigitChars, t, 1)

\* C7: after the mention rewrite of preprocess, every "@" followed by letters
\* of either case or digits has become "@user", and nothing else has changed.
C7_MentionsReplaced ==
    npc # "start" => mentioned = SpecifiedMentions(raw)

\* C8: preprocess applied to its own result changes nothing.
C8_Idempotent ==
    npc = "twice" => twice = once


----------------------------------------------------------------------------
(* Properties of download_id2label, checked under SpecCache *)

\* C9: a lookup fetches exactly when the task's cache file is absent when it
\* starts; once a lookup of a task has succeeded, a later lookup of that task
\* returns the same mapping without fetching; a lookup whose fetch fails
\* raises and leaves the file absent, and the next lookup of the task
\* fetches again.
C9_FetchIffCacheFileAbsent ==
    lookups > 0 =>
        /\ last.fetched <=> ~last.hadFile
        /\ last.hadOk =>
              /\ ~last.fetched /\ ~last.raised
              /\ last.mapping = firstOk[last.task].mapping
        /\ (last.fetched /\ ~last.up) =>
              (last.raised /\ ~files[last.task].exists)
        /\ last.raised => (last.fetched /\ ~last.up)
        /\ last.afterRaise => last.fetched
        /\ ~last.raised => files[last.task].exists

C9_Witness ==
    /\ lookups > 1
    /\ last.hadOk /\ ~last.fetched /\ last.up
    /\ prevRaised[CHOOSE t \in Tasks : t # last.task]
    /\ EnumerateLabels(ParseLabels(remote[last.task])) # last.mapping
    /\ last.mapping = firstOk[last.task].mapping


====
